---- MODULE Spec2Model ----
(***************************************************************************)
(* Model of the configuration engine of cli_base:                          *)
(*   cli_base/utils/advanced_settings.py  (AdvancedRTSettings)             *)
(*   cli_base/utils/context.py            (ContextManager)                 *)
(*   cli_base/commands/config_cmd.py      (reset / replace / import)       *)
(*                                                                         *)
(* Python dictionaries are objects with identity: the model keeps a heap   *)
(* of dictionaries and every configuration container is an address into    *)
(* that heap, so that dict.copy() (a shallow copy), in-place item          *)
(* assignment and plain reference assignment behave as they do in Python.  *)
(* Files hold values (json.dump / json.load), never references.            *)
(***************************************************************************)
EXTENDS Integers, Sequences, FiniteSets, TLC

VARIABLES
    heap,               \* the dictionaries of the process: address -> dict
    DEFAULT_CONFIG,     \* AdvancedRTSettings.DEFAULT_CONFIG (class attribute)
    global_config,      \* self.global_config   (address, 0 before construction)
    local_config,       \* self.local_config
    named_config,       \* self.named_config    (address, 0 is None)
    named_config_path,  \* self.named_config_path ("" is None)
    cli_args,           \* self.cli_args        (address)
    context,            \* self.context         (address)
    command_path,       \* self.command_context["command_path"] ("" is None)
    sys_argv,           \* sys.argv of the process
    files,              \* the file system: path -> file
    cm_instance,        \* ContextManager._instance (object id, 0 is None)
    cm_created,         \* number of ContextManager objects ever allocated
    cli_given,          \* the cli_args dictionary as handed to __init__
    ret,                \* outcome of the last operation
    steps,              \* number of operations performed
    conv                \* the locals of a running process_with_llm

vars == <<heap, DEFAULT_CONFIG, global_config, local_config, named_config,
          named_config_path, cli_args, context, command_path, sys_argv,
          files, cm_instance, cm_created, cli_given, ret, steps, conv>>

(***************************************************************************)
(* Bounds                                                                  *)
(***************************************************************************)
MaxOps == 3

(***************************************************************************)
(* Values and dictionaries                                                 *)
(***************************************************************************)
\* a scalar (string, number, None): ref = 0
V(x) == [ref |-> 0, val |-> x]
\* a reference to the dictionary at address a
R(a) == [ref |-> a, val |-> ""]
\* isinstance(v, dict)
IsDict(v) == v.ref # 0
None == "None"
EmptyDict == [k \in {} |-> V(None)]

\* d[k] = v
SetItem(d, k, v) == (k :> v) @@ d
\* del d[k]
DelItem(d, k) == [x \in DOMAIN d \ {k} |-> d[x]]
\* d.update(u) for a dictionary u of scalars (key -> string)
Update(d, u) == [k \in DOMAIN u |-> V(u[k])] @@ d
\* d.get(k, default) on the dictionary at address a
Get(h, a, k, default) == IF k \in DOMAIN h[a] THEN h[a][k] ELSE default
\* d[k] is there and is a dictionary; its address
HasDict(h, a, k) == k \in DOMAIN h[a] /\ IsDict(h[a][k])
Sub(h, a, k) == h[a][k].ref
\* bool(x) of Python for the values of the model
TruthyVal(v) == IsDict(v) \/ v.val \notin {None, "", "False"}
TruthyDict(h, a) == a # 0 /\ DOMAIN h[a] # {}

\* A JSON value, as a file holds it: an object [d |-> key -> value] or a
\* scalar [s |-> string].
Obj(f) == [d |-> f]
Sc(x) == [s |-> x]
IsObj(t) == DOMAIN t = {"d"}
NoKeys == [k \in {} |-> Sc(None)]

\* json.dump(obj): the value of the dictionary at address a
RECURSIVE Value(_, _)
Value(h, a) ==
    Obj([k \in DOMAIN h[a] |->
           IF IsDict(h[a][k]) THEN Value(h, h[a][k].ref) ELSE Sc(h[a][k].val)])

\* json.load(f): builds fresh dictionaries for the value t (an object);
\* yields [h |-> the heap, a |-> the address of the new dictionary]
RECURSIVE Load(_, _), LoadKeys(_, _, _, _)
LoadSub(m, a, t, ks, k) ==
    LoadKeys([m.h EXCEPT ![a] = SetItem(@, k, R(m.a))], a, t, ks \ {k})
LoadKey(h, a, t, ks, k) ==
    IF IsObj(t.d[k])
    THEN LoadSub(Load(h, t.d[k]), a, t, ks, k)
    ELSE LoadKeys([h EXCEPT ![a] = SetItem(@, k, V(t.d[k].s))], a, t, ks \ {k})
LoadKeys(h, a, t, ks) ==
    IF ks = {} THEN [h |-> h, a |-> a]
    ELSE LoadKey(h, a, t, ks, CHOOSE x \in ks : TRUE)
Load(h, t) == LoadKeys(Append(h, EmptyDict), Len(h) + 1, t, DOMAIN t.d)

(***************************************************************************)
(* AdvancedRTSettings._deep_merge                                          *)
(***************************************************************************)
RECURSIVE deep_merge(_, _, _), MergeItems(_, _, _, _)
\* result[key] = self._deep_merge(result[key], value), m being that merge
MergeSub(m, r, d2, ks, key) ==
    MergeItems([m.h EXCEPT ![r] = SetItem(@, key, R(m.a))], r, d2, ks \ {key})
\* a merge that replaces where it should recurse
MergeItemReplacing(h, r, d2, ks, key) ==
    MergeItems([h EXCEPT ![r] = SetItem(@, key, h[d2][key])], r, d2, ks \ {key})
\* one round of the loop over dict2.items()
MergeItem(h, r, d2, ks, key) ==
    IF key \in DOMAIN h[r] /\ IsDict(h[r][key]) /\ IsDict(h[d2][key])
    THEN MergeSub(deep_merge(h, h[r][key].ref, h[d2][key].ref), r, d2, ks, key)
    ELSE MergeItems([h EXCEPT ![r] = SetItem(@, key, h[d2][key])], r, d2, ks \ {key})
MergeItems(h, r, d2, ks) ==
    IF ks = {} THEN h
    ELSE MergeItem(h, r, d2, ks, CHOOSE x \in ks : TRUE)
\* result = dict1.copy(), then the loop; yields [h, a]
deep_merge(h, dict1, dict2) ==
    [h |-> MergeItems(Append(h, h[dict1]), Len(h) + 1, dict2, DOMAIN h[dict2]),
     a |-> Len(h) + 1]

(***************************************************************************)
(* Garbage collection: dictionaries no longer referenced are dropped and   *)
(* the live ones renumbered in traversal order from the roots, so that two *)
(* heaps with the same shape are the same state.                           *)
(***************************************************************************)
\* acc.o: the live addresses in traversal order; acc.m: address -> new address
RECURSIVE Visit(_, _, _), VisitItems(_, _, _, _)
VisitItem(h, a, ks, acc, k) ==
    VisitItems(h, a, ks \ {k}, Visit(h, h[a][k].ref, acc))
VisitItems(h, a, ks, acc) ==
    IF ks = {} THEN acc
    ELSE VisitItem(h, a, ks, acc, CHOOSE x \in ks : TRUE)
Visit(h, a, acc) ==
    IF a \in DOMAIN acc.m THEN acc
    ELSE VisitItems(h, a, {k \in DOMAIN h[a] : IsDict(h[a][k])},
                    [m |-> (a :> Len(acc.o) + 1) @@ acc.m, o |-> Append(acc.o, a)])

Live(s) ==
    Visit(s.heap, s.context,
      Visit(s.heap, s.cli_args,
        Visit(s.heap, s.named_config,
          Visit(s.heap, s.local_config,
            Visit(s.heap, s.global_config,
              Visit(s.heap, s.DEFAULT_CONFIG, [m |-> (0 :> 0), o |-> <<>>]))))))

Renumber(s, acc) ==
    [s EXCEPT !.heap = [i \in 1..Len(acc.o) |->
                          [k \in DOMAIN s.heap[acc.o[i]] |->
                             IF IsDict(s.heap[acc.o[i]][k])
                             THEN R(acc.m[s.heap[acc.o[i]][k].ref])
                             ELSE s.heap[acc.o[i]][k]]],
              !.DEFAULT_CONFIG = acc.m[s.DEFAULT_CONFIG],
              !.global_config = acc.m[s.global_config],
              !.local_config = acc.m[s.local_config],
              !.named_config = acc.m[s.named_config],
              !.cli_args = acc.m[s.cli_args],
              !.context = acc.m[s.context]]

Collect(s) == Renumber(s, Live(s))

(***************************************************************************)
(* Files                                                                   *)
(***************************************************************************)
Missing == [kind |-> "missing", tree |-> Obj(NoKeys)]
Invalid == [kind |-> "invalid", tree |-> Obj(NoKeys)]     \* json.load raises
Json(t) == [kind |-> "json", tree |-> t]
Exists(f) == f.kind # "missing"

\* Path.home() / ".cli-tool" / "config.json" and Path.cwd() / ".cli-tool" / "config.json"
global_config_path == "~/.cli-tool/config.json"
local_config_path == "./.cli-tool/config.json"
NamedFile == "f1.json"
Paths == {global_config_path, local_config_path, NamedFile}

(***************************************************************************)
(* The state of the process as a record, for the operators below           *)
(***************************************************************************)
State ==
    [heap |-> heap, DEFAULT_CONFIG |-> DEFAULT_CONFIG,
     global_config |-> global_config, local_config |-> local_config,
     named_config |-> named_config, named_config_path |-> named_config_path,
     cli_args |-> cli_args, context |-> context,
     command_path |-> command_path, files |-> files]

(***************************************************************************)
(* AdvancedRTSettings._initialize_config_files                             *)
(***************************************************************************)
initialize_config_files(s) ==
    IF ~Exists(s.files[global_config_path])
    THEN [s EXCEPT !.files[global_config_path] =
                        Json(Value(s.heap, s.DEFAULT_CONFIG))]
    ELSE s

(***************************************************************************)
(* AdvancedRTSettings._load_configurations                                 *)
(***************************************************************************)
SetGlobal(s, m) == [s EXCEPT !.heap = m.h, !.global_config = m.a]
SetLocal(s, m) == [s EXCEPT !.heap = m.h, !.local_config = m.a]
SetNamed(s, m) == [s EXCEPT !.heap = m.h, !.named_config = m.a]

LoadGlobal(s) ==
    IF s.files[global_config_path].kind = "json"
    THEN SetGlobal(s, Load(s.heap, s.files[global_config_path].tree))
    ELSE s
LoadLocal(s) ==
    IF s.files[local_config_path].kind = "json"
    THEN SetLocal(s, Load(s.heap, s.files[local_config_path].tree))
    ELSE s
\* the file named path, once self.named_config_path is set: loaded, None when
\* json.load raises, left alone when the file does not exist
ReadNamed(s, path) ==
    IF path \in Paths /\ Exists(s.files[path])
    THEN IF s.files[path].kind = "json"
         THEN SetNamed(s, Load(s.heap, s.files[path].tree))
         ELSE [s EXCEPT !.named_config = 0]
    ELSE s
LoadNamed(s, path) == ReadNamed([s EXCEPT !.named_config_path = path], path)

cli_file_path(s) == Get(s.heap, s.cli_args, "file_path", V(None))
LoadNamedArg(s) ==
    IF TruthyVal(cli_file_path(s)) THEN LoadNamed(s, cli_file_path(s).val) ELSE s
load_configurations(s) == LoadNamedArg(LoadLocal(LoadGlobal(s)))

(***************************************************************************)
(* AdvancedRTSettings._build_runtime_context                               *)
(***************************************************************************)
\* '--global' in ' '.join(sys.argv), '--file' in ' '.join(sys.argv):
\* substring tests, decided per token of the argument vectors of the model
ArgvHasGlobal(argv) == \E i \in DOMAIN argv : argv[i] = "--global"
ArgvHasFile(argv) == \E i \in DOMAIN argv : argv[i] \in {"--file", "--file=f1.json"}
\* sys_argv.index('--file') and the element after it; None when index raises
\* ValueError or the flag is the last element
ArgvFileIndex(argv) ==
    CHOOSE i \in DOMAIN argv :
        argv[i] = "--file" /\ \A j \in 1..(i - 1) : argv[j] # "--file"
ArgvFilePath(argv) ==
    IF \E i \in DOMAIN argv : argv[i] = "--file"
    THEN IF ArgvFileIndex(argv) + 1 <= Len(argv)
         THEN argv[ArgvFileIndex(argv) + 1]
         ELSE None
    ELSE None

use_global(s) ==
    \/ ArgvHasGlobal(sys_argv)
    \/ Get(s.heap, s.cli_args, "scope", V("local")) = V("global")
use_file(s) == ArgvHasFile(sys_argv) \/ TruthyVal(cli_file_path(s))
file_path(s) ==
    IF TruthyVal(cli_file_path(s)) THEN cli_file_path(s).val
    ELSE IF ArgvHasFile(sys_argv) THEN ArgvFilePath(sys_argv) ELSE None
has_file_option(s) == use_file(s) /\ file_path(s) # None

\* lines 227-240: a second attempt to load the named file
ReloadNamed(s) ==
    IF has_file_option(s) /\ file_path(s) # "" /\ ~TruthyDict(s.heap, s.named_config)
    THEN LoadNamed(s, file_path(s))
    ELSE s

\* the documents merged and the scope tag, by the branch taken (lines 242-277)
ScopeDocs(s) ==
    IF has_file_option(s)
    THEN IF TruthyDict(s.heap, s.named_config)
         THEN <<s.global_config, s.local_config, s.named_config>>
         ELSE <<s.global_config, s.local_config>>
    ELSE IF use_global(s) THEN <<s.global_config>>
    ELSE <<s.global_config, s.local_config>>
\* a tag that follows the option, not what was loaded
ScopeTagByOption(s) ==
    IF has_file_option(s) THEN "file"
    ELSE IF use_global(s) THEN "global"
    ELSE "local"
ScopeTag(s) ==
    IF has_file_option(s)
    THEN IF TruthyDict(s.heap, s.named_config) THEN "file" ELSE "local"
    ELSE IF use_global(s) THEN "global"
    ELSE "local"

\* runtime_config = self._deep_merge(runtime_config, doc), for each doc in turn
RECURSIVE MergeChain(_, _)
MergeChain(m, docs) ==
    IF docs = <<>> THEN m
    ELSE MergeChain(deep_merge(m.h, m.a, Head(docs)), Tail(docs))

\* a context that keeps a current_scope and a cli_args the documents brought
SetContextKeepingKeys(s, m) ==
    [s EXCEPT !.heap = [m.h EXCEPT ![m.a] =
                          @ @@ [k \in {"current_scope", "cli_args"} |->
                                  IF k = "cli_args" THEN R(s.cli_args)
                                  ELSE V(ScopeTag(s))]],
              !.context = m.a]
\* self.context = runtime_config, with current_scope and cli_args set on it
SetContext(s, m) ==
    [s EXCEPT !.heap = [m.h EXCEPT ![m.a] =
                          SetItem(SetItem(@, "current_scope", V(ScopeTag(s))),
                                  "cli_args", R(s.cli_args))],
              !.context = m.a]

\* from runtime_config = self.DEFAULT_CONFIG.copy() on
MergeScopes(s) ==
    SetContext(s, MergeChain([h |-> Append(s.heap, s.heap[s.DEFAULT_CONFIG]),
                              a |-> Len(s.heap) + 1],
                             ScopeDocs(s)))

build_runtime_context(s) == MergeScopes(ReloadNamed(s))

(***************************************************************************)
(* Command-specific configuration: lookup                                  *)
(***************************************************************************)
\* self.context["commands"][path] when both keys are there; 0 when not
CommandConfigOf(s, path) ==
    IF /\ HasDict(s.heap, s.context, "commands")
       /\ HasDict(s.heap, Sub(s.heap, s.context, "commands"), path)
    THEN Sub(s.heap, Sub(s.heap, s.context, "commands"), path)
    ELSE 0

\* get_command_config() for the current command: the address of the
\* dictionary, 0 for the fresh empty dictionary returned when there is none
get_command_config(s) ==
    IF s.command_path = "" THEN 0 ELSE CommandConfigOf(s, s.command_path)

(***************************************************************************)
(* AdvancedRTSettings._apply_command_specific_config                       *)
(***************************************************************************)
\* a loop that lets the command's configuration overwrite what is there
ApplyItemsOverwriting(s, cmd_config) ==
    [s EXCEPT !.heap[s.cli_args] = s.heap[cmd_config] @@ @]
\* the loop over cmd_config.items(): its rounds touch distinct keys
ApplyItems(s, cmd_config) ==
    [s EXCEPT !.heap[s.cli_args] =
        [key \in DOMAIN @ \cup DOMAIN s.heap[cmd_config] |->
            IF /\ key \in DOMAIN s.heap[cmd_config]
               /\ (key \notin DOMAIN @ \/ @[key] = V(None))
            THEN s.heap[cmd_config][key]
            ELSE @[key]]]

\* a construction that leaves cli_args as the caller gave them
ApplyNothing(s, cmd_config) == s
ApplyFrom(s, cmd_config) == IF cmd_config = 0 THEN s ELSE ApplyItems(s, cmd_config)

apply_command_specific_config(s) ==
    IF s.command_path = "" THEN s
    ELSE ApplyFrom(s, CommandConfigOf(s, s.command_path))

(***************************************************************************)
(* AdvancedRTSettings.__init__                                             *)
(*   args: the cli_args dictionary handed in (key -> scalar)               *)
(*   path: the command path of the current Click context ("" if none)      *)
(***************************************************************************)
SysArgvMarker == "<sys.argv>"
\* self.cli_args = cli_args or {}; self.cli_args["sys.argv"] = sys.argv
CliArgs(args) ==
    [k \in DOMAIN args \cup {"sys.argv"} |->
        IF k = "sys.argv" THEN V(SysArgvMarker) ELSE V(args[k])]

\* the attributes set before the files are looked at
Attributes(s, args, path) ==
    [s EXCEPT !.heap = Append(Append(Append(s.heap, s.heap[s.DEFAULT_CONFIG]),
                                     s.heap[s.DEFAULT_CONFIG]),
                              CliArgs(args)),
              !.global_config = Len(s.heap) + 1,
              !.local_config = Len(s.heap) + 2,
              !.named_config = 0,
              !.named_config_path = "",
              !.cli_args = Len(s.heap) + 3,
              !.context = 0,
              !.command_path = path]

init(s, args, path) ==
    apply_command_specific_config(
      build_runtime_context(
        load_configurations(
          initialize_config_files(Attributes(s, args, path)))))

(***************************************************************************)
(* Scope accessors.  An operation yields [s |-> state after, status |-> e] *)
(* where e is "ok" or the name of the exception that left the operation.   *)
(***************************************************************************)
Ok(s) == [s |-> s, status |-> "ok"]
Raise(s, e) == [s |-> s, status |-> e]

\* get_config_path(scope); "" stands for raise ValueError
get_config_path(s, scope) ==
    IF scope = "global" THEN global_config_path
    ELSE IF scope = "local" THEN local_config_path
    ELSE IF scope = "file" /\ s.named_config_path # "" THEN s.named_config_path
    ELSE ""

\* get_config(scope); 0 stands for raise ValueError
get_config(s, scope) ==
    IF scope = "global" THEN s.global_config
    ELSE IF scope = "local" THEN s.local_config
    ELSE IF scope = "file" /\ TruthyDict(s.heap, s.named_config) THEN s.named_config
    ELSE 0

(***************************************************************************)
(* AdvancedRTSettings.save_config                                          *)
(***************************************************************************)
\* self.<scope>_config = config
AssignScope(s, config, scope) ==
    IF scope = "global" THEN [s EXCEPT !.global_config = config]
    ELSE IF scope = "local" THEN [s EXCEPT !.local_config = config]
    ELSE IF scope = "file" THEN [s EXCEPT !.named_config = config]
    ELSE s

\* a save that leaves the context as it was
SaveAtNoRebuild(s, config, scope, config_path) ==
    IF config_path = "" THEN Raise(s, "ValueError")
    ELSE Ok(AssignScope([s EXCEPT !.files[config_path] =
                                      Json(Value(s.heap, config))],
                        config, scope))
\* json.dump(config, f), the assignment, the rebuild
SaveAt(s, config, scope, config_path) ==
    IF config_path = "" THEN Raise(s, "ValueError")
    ELSE Ok(build_runtime_context(
              AssignScope([s EXCEPT !.files[config_path] =
                                        Json(Value(s.heap, config))],
                          config, scope)))

save_config(s, config, scope) ==
    SaveAt(s, config, scope, get_config_path(s, scope))

\* save_config of the dictionary m.a of the heap m.h
SaveNew(s, m, scope) == save_config([s EXCEPT !.heap = m.h], m.a, scope)

(***************************************************************************)
(* AdvancedRTSettings.update_config                                        *)
(***************************************************************************)
\* u: the updates dictionary, built by the caller
UpdateWith(s, config, u, scope) ==
    IF config = 0 THEN Raise(s, "ValueError")
    ELSE SaveNew(s, deep_merge(u.h, config, u.a), scope)

update_config(s, updates, scope) ==
    UpdateWith(s, get_config(s, scope), Load(s.heap, updates), scope)

(***************************************************************************)
(* Profiles                                                                *)
(***************************************************************************)
\* config["profiles"][profile_type]
OfType(h, config, profile_type) == Sub(h, Sub(h, config, "profiles"), profile_type)

\* the lookups shared by set_default_profile, edit_profile, delete_profile:
\* "ok" or the exception raised
FindProfile(h, config, profile_type, name) ==
    IF config = 0 THEN "ValueError"
    ELSE IF "profiles" \notin DOMAIN h[config] THEN "KeyError"
    ELSE IF profile_type \notin DOMAIN h[Sub(h, config, "profiles")] THEN "ValueError"
    ELSE IF name \notin DOMAIN h[OfType(h, config, profile_type)] THEN "ValueError"
    ELSE "ok"

SetDefaultIn(s, profile_type, name, scope, config) ==
    IF FindProfile(s.heap, config, profile_type, name) # "ok"
    THEN Raise(s, FindProfile(s.heap, config, profile_type, name))
    ELSE IF "defaults" \notin DOMAIN s.heap[config] THEN Raise(s, "KeyError")
    ELSE save_config([s EXCEPT !.heap[Sub(s.heap, config, "defaults")] =
                                   SetItem(@, profile_type, V(name))],
                     config, scope)

set_default_profile(s, profile_type, name, scope) ==
    SetDefaultIn(s, profile_type, name, scope, get_config(s, scope))

\* config["profiles"][profile_type] = {} when the type is not there
EnsureType(h, config, profile_type) ==
    IF profile_type \notin DOMAIN h[Sub(h, config, "profiles")]
    THEN [Append(h, EmptyDict) EXCEPT ![Sub(h, config, "profiles")] =
              SetItem(@, profile_type, R(Len(h) + 1))]
    ELSE h

\* a create that overwrites a profile of the same name
AddProfileOverwriting(s, h, profile_type, profile, scope, config) ==
    save_config(
      [s EXCEPT !.heap =
          [Append(h, [k \in DOMAIN profile |-> V(profile[k])])
             EXCEPT ![OfType(h, config, profile_type)] =
                SetItem(@, profile["name"], R(Len(h) + 1))]],
      config, scope)
\* h: the heap once the type is there
AddProfile(s, h, profile_type, profile, scope, config) ==
    IF profile["name"] \in DOMAIN h[OfType(h, config, profile_type)]
    THEN Raise([s EXCEPT !.heap = h], "ValueError")
    ELSE save_config(
           [s EXCEPT !.heap =
               [Append(h, [k \in DOMAIN profile |-> V(profile[k])])
                  EXCEPT ![OfType(h, config, profile_type)] =
                     SetItem(@, profile["name"], R(Len(h) + 1))]],
           config, scope)

CreateIn(s, profile_type, profile, scope, config) ==
    IF config = 0 THEN Raise(s, "ValueError")
    ELSE IF "profiles" \notin DOMAIN s.heap[config] THEN Raise(s, "KeyError")
    ELSE AddProfile(s, EnsureType(s.heap, config, profile_type),
                    profile_type, profile, scope, config)

\* profile: the dictionary handed in (key -> scalar), with its "name"
create_profile(s, profile_type, profile, scope) ==
    CreateIn(s, profile_type, profile, scope, get_config(s, scope))

EditIn(s, profile_type, name, updates, scope, config) ==
    IF FindProfile(s.heap, config, profile_type, name) # "ok"
    THEN Raise(s, FindProfile(s.heap, config, profile_type, name))
    ELSE save_config(
           [s EXCEPT !.heap[Sub(s.heap, OfType(s.heap, config, profile_type), name)] =
                         Update(@, updates)],
           config, scope)

\* updates: key -> scalar
edit_profile(s, profile_type, name, updates, scope) ==
    EditIn(s, profile_type, name, updates, scope, get_config(s, scope))

\* delete_profile that leaves the default as it is
ClearDefaultNever(s, h, profile_type, name, scope, config) ==
    IF "defaults" \notin DOMAIN h[config]
    THEN Raise([s EXCEPT !.heap = h], "KeyError")
    ELSE save_config([s EXCEPT !.heap = h], config, scope)

\* if config["defaults"].get(profile_type) == name: ... = None; then the save
\* (h: the heap once the profile is deleted)
ClearDefault(s, h, profile_type, name, scope, config) ==
    IF "defaults" \notin DOMAIN h[config]
    THEN Raise([s EXCEPT !.heap = h], "KeyError")
    ELSE IF Get(h, Sub(h, config, "defaults"), profile_type, V(None)) = V(name)
    THEN save_config([s EXCEPT !.heap = [h EXCEPT ![Sub(h, config, "defaults")] =
                                            SetItem(@, profile_type, V(None))]],
                     config, scope)
    ELSE save_config([s EXCEPT !.heap = h], config, scope)

DeleteIn(s, profile_type, name, scope, config) ==
    IF FindProfile(s.heap, config, profile_type, name) # "ok"
    THEN Raise(s, FindProfile(s.heap, config, profile_type, name))
    ELSE ClearDefault(s, [s.heap EXCEPT ![OfType(s.heap, config, profile_type)] =
                                            DelItem(@, name)],
                      profile_type, name, scope, config)

delete_profile(s, profile_type, name, scope) ==
    DeleteIn(s, profile_type, name, scope, get_config(s, scope))

(***************************************************************************)
(* Settings                                                                *)
(***************************************************************************)
SetSettingIn(s, setting_name, value, scope, config) ==
    IF config = 0 THEN Raise(s, "ValueError")
    ELSE IF "settings" \notin DOMAIN s.heap[config] THEN Raise(s, "KeyError")
    ELSE save_config([s EXCEPT !.heap[Sub(s.heap, config, "settings")] =
                                   SetItem(@, setting_name, V(value))],
                     config, scope)

set_setting(s, setting_name, value, scope) ==
    SetSettingIn(s, setting_name, value, scope, get_config(s, scope))

(***************************************************************************)
(* Command-specific configuration: the mutators                            *)
(***************************************************************************)
\* effective_config["commands"] = {} when the section is not there
EnsureCommands(h, config) ==
    IF "commands" \notin DOMAIN h[config]
    THEN [Append(h, EmptyDict) EXCEPT ![config] =
              SetItem(@, "commands", R(Len(h) + 1))]
    ELSE h

\* effective_config["commands"][command_path] = {} when it is not there
EnsureCommand(h, config, path) ==
    IF path \notin DOMAIN h[Sub(h, config, "commands")]
    THEN [Append(h, EmptyDict) EXCEPT ![Sub(h, config, "commands")] =
              SetItem(@, path, R(Len(h) + 1))]
    ELSE h

\* h: the heap once the "commands" section is there
SetCommand(s, h, path, config, scope, effective_config) ==
    save_config(
      [s EXCEPT !.heap =
          [Append(h, [k \in DOMAIN config |-> V(config[k])])
             EXCEPT ![Sub(h, effective_config, "commands")] =
                SetItem(@, path, R(Len(h) + 1))]],
      effective_config, scope)

SetCommandIn(s, path, config, scope, effective_config) ==
    IF effective_config = 0 THEN Raise(s, "ValueError")
    ELSE SetCommand(s, EnsureCommands(s.heap, effective_config),
                    path, config, scope, effective_config)

\* config: key -> scalar
set_command_config(s, path, config, scope) ==
    SetCommandIn(s, path, config, scope, get_config(s, scope))

\* h: the heap once the section and the command's dictionary are there
UpdateCommand(s, h, path, updates, scope, effective_config) ==
    save_config(
      [s EXCEPT !.heap =
          [h EXCEPT ![Sub(h, Sub(h, effective_config, "commands"), path)] =
              Update(@, updates)]],
      effective_config, scope)

UpdateCommandIn(s, path, updates, scope, effective_config) ==
    IF effective_config = 0 THEN Raise(s, "ValueError")
    ELSE UpdateCommand(s, EnsureCommand(EnsureCommands(s.heap, effective_config),
                                        effective_config, path),
                       path, updates, scope, effective_config)

\* updates: key -> scalar
update_command_config(s, path, updates, scope) ==
    UpdateCommandIn(s, path, updates, scope, get_config(s, scope))

DeleteCommandIn(s, path, scope, effective_config) ==
    IF effective_config = 0 THEN Raise(s, "ValueError")
    ELSE IF /\ "commands" \in DOMAIN s.heap[effective_config]
            /\ path \in DOMAIN s.heap[Sub(s.heap, effective_config, "commands")]
    THEN save_config([s EXCEPT !.heap[Sub(s.heap, effective_config, "commands")] =
                                   DelItem(@, path)],
                     effective_config, scope)
    ELSE Ok(s)

delete_command_config(s, path, scope) ==
    DeleteCommandIn(s, path, scope, get_config(s, scope))

(***************************************************************************)
(* AdvancedRTSettings.get_param_value: [status, val]                       *)
(***************************************************************************)
Return(v) == [status |-> "ok", val |-> v]

\* cmd_config: what self.get_command_config() returned
ParamFrom(s, param_name, default, cmd_config) ==
    IF param_name \in DOMAIN s.heap[s.cli_args]
    THEN Return(s.heap[s.cli_args][param_name].val)
    ELSE IF cmd_config # 0 /\ param_name \in DOMAIN s.heap[cmd_config]
    THEN Return(s.heap[cmd_config][param_name].val)
    ELSE IF "settings" \notin DOMAIN s.heap[s.context]
    THEN [status |-> "KeyError", val |-> ""]
    ELSE IF param_name \in DOMAIN s.heap[Sub(s.heap, s.context, "settings")]
    THEN Return(s.heap[Sub(s.heap, s.context, "settings")][param_name].val)
    ELSE Return(default)

get_param_value(s, param_name, default) ==
    ParamFrom(s, param_name, default, get_command_config(s))

(***************************************************************************)
(* ContextManager                                                          *)
(***************************************************************************)
\* a __new__ that allocates every time
cm_new_always(instance, created) == created + 1
\* ContextManager.__new__: the object cls() evaluates to, given _instance
\* and the number of objects allocated so far
cm_new(instance, created) == IF instance = 0 THEN created + 1 ELSE instance

(***************************************************************************)
(* The inputs of the model                                                 *)
(***************************************************************************)
\* AdvancedRTSettings.DEFAULT_CONFIG as written in the source
DefaultTree ==
    Obj([profiles |-> Obj([llm |-> Obj(NoKeys), database |-> Obj(NoKeys)]),
         defaults |-> Obj([llm |-> Sc(None), database |-> Sc(None)]),
         settings |-> Obj([output_format |-> Sc("json"),
                           color_theme |-> Sc("dark"),
                           log_level |-> Sc("info")]),
         commands |-> Obj(NoKeys)])

\* a local configuration file written by an earlier run
LocalTree ==
    Obj([profiles |-> Obj([llm |-> Obj([p1 |-> Obj([name |-> Sc("p1"),
                                                    model |-> Sc("a")])])]),
         defaults |-> Obj([llm |-> Sc("p1")]),
         settings |-> Obj([param1 |-> Sc("l"), log_level |-> Sc("debug")]),
         commands |-> Obj([cmd |-> Obj([param2 |-> Sc("lc")])])])

\* a named configuration file: a partial document
NamedTree ==
    Obj([settings |-> Obj([param1 |-> Sc("f")]),
         commands |-> Obj([cmd |-> Obj([param1 |-> Sc("fc")])])])

\* the JSON argument of 'config update' and of 'config replace'
UpdateTree == Obj([settings |-> Obj([param1 |-> Sc("u")])])

Scopes == {"global", "local", "file"}
ProfileNames == {"p1", "p2"}
Profile(n) == [name |-> n, model |-> "a"]
ProfileUpdates == [model |-> "b"]
CommandPath == "cmd"
CommandConfig == [param1 |-> "c"]
CommandUpdates == [param2 |-> "d"]
SettingName == "param1"

\* the dictionaries handed to ContextManager.initialize / initialize_context
\* by standard_command: scope ("local" is the default of the option) and
\* file_path (None when --file is absent)
ScopeArgs ==
    { [scope |-> "local", file_path |-> None],
      [scope |-> "global", file_path |-> None],
      [scope |-> "local", file_path |-> NamedFile] }
NoArgs == [k \in {} |-> None]
Argvs == { <<"cli-tool">>, <<"cli-tool", "--file", NamedFile>> }

\* the files left by earlier runs: <<global, local, named>>
InitialFiles ==
    { <<Missing, Missing, Missing>>,
      <<Missing, Json(LocalTree), Json(NamedTree)>>,
      <<Invalid, Missing, Json(NamedTree)>>,
      <<Missing, Invalid, Json(NamedTree)>>,
      <<Missing, Json(LocalTree), Invalid>>,
      <<Invalid, Json(LocalTree), Missing>> }

\* ret.arg of an operation that constructed an AdvancedRTSettings
NewSettings == "AdvancedRTSettings"
NoRet == [op |-> "", scope |-> "", status |-> "", arg |-> "", inst |-> 0, val |-> ""]
\* no conversion is running
NoConversion == [pc |-> "none"]

(***************************************************************************)
(* Initial state: the process has started, the class attributes exist,     *)
(* nothing has been constructed.                                           *)
(***************************************************************************)
Init ==
    /\ heap = Load(<<>>, DefaultTree).h
    /\ DEFAULT_CONFIG = 1
    /\ global_config = 0
    /\ local_config = 0
    /\ named_config = 0
    /\ named_config_path = ""
    /\ cli_args = 0
    /\ context = 0
    /\ command_path = ""
    /\ sys_argv \in Argvs
    /\ \E f \in InitialFiles :
         files = [p \in Paths |-> IF p = global_config_path THEN f[1]
                                  ELSE IF p = local_config_path THEN f[2]
                                  ELSE f[3]]
    /\ cm_instance = 0
    /\ cm_created = 0
    /\ cli_given = NoArgs
    /\ ret = NoRet
    /\ steps = 0
    /\ conv = NoConversion

Constructed == global_config # 0

\* the variables of the settings object and of the file system take the
\* values of the record c
Becomes(c) ==
    /\ heap' = c.heap
    /\ DEFAULT_CONFIG' = c.DEFAULT_CONFIG
    /\ global_config' = c.global_config
    /\ local_config' = c.local_config
    /\ named_config' = c.named_config
    /\ named_config_path' = c.named_config_path
    /\ cli_args' = c.cli_args
    /\ context' = c.context
    /\ command_path' = c.command_path
    /\ files' = c.files

\* the new state and the outcome of an operation of the settings object
Commit(r, op, scope, arg) ==
    /\ Becomes(Collect(r.s))
    /\ ret' = [op |-> op, scope |-> scope, status |-> r.status, arg |-> arg,
               inst |-> 0, val |-> ""]
    /\ steps' = steps + 1
    /\ UNCHANGED <<sys_argv, conv, cm_instance, cm_created, cli_given>>

(***************************************************************************)
(* ContextManager.initialize(cli_args)                                     *)
(***************************************************************************)
\* instance: the object cls() evaluated to; its settings are constructed anew
Construct(args, path, op, instance) ==
    /\ Becomes(Collect(init(State, args, path)))
    /\ cli_given' = args
    /\ cm_instance' = instance
    /\ cm_created' = IF instance > cm_created THEN instance ELSE cm_created
    /\ ret' = [op |-> op, scope |-> "", status |-> "ok", arg |-> NewSettings,
               inst |-> instance, val |-> ""]
    /\ steps' = steps + 1
    /\ UNCHANGED <<sys_argv, conv>>

\* an operation that changes nothing but reports an outcome
Report(op, status, instance) ==
    /\ ret' = [NoRet EXCEPT !.op = op, !.status = status, !.inst = instance]
    /\ steps' = steps + 1
    /\ UNCHANGED <<heap, DEFAULT_CONFIG, global_config, local_config, named_config,
                   named_config_path, cli_args, context, command_path, sys_argv, conv,
                   files, cm_instance, cm_created, cli_given>>

Initialize ==
    /\ steps < MaxOps
    /\ \E args \in ScopeArgs \cup {NoArgs} :
         Construct(args, "", "initialize", cm_new(cm_instance, cm_created))

(***************************************************************************)
(* initialize_context(cli_args)                                            *)
(***************************************************************************)
InitializeContext ==
    /\ steps < MaxOps
    /\ \E args \in ScopeArgs \cup {NoArgs} :
         IF cm_instance # 0
         THEN IF args # NoArgs
              THEN Construct(args, "", "initialize_context", cm_instance)
              ELSE Report("initialize_context", "ok", cm_instance)
         ELSE Construct(args, "", "initialize_context",
                        cm_new(cm_instance, cm_created))

(***************************************************************************)
(* ContextManager.get_instance()                                           *)
(***************************************************************************)
GetInstance ==
    /\ steps < MaxOps
    /\ Report("get_instance",
              IF cm_instance = 0 THEN "RuntimeError" ELSE "ok", cm_instance)

(***************************************************************************)
(* The operations of the settings object                                   *)
(***************************************************************************)
SetSetting ==
    /\ steps < MaxOps /\ Constructed
    /\ \E scope \in Scopes :
         Commit(set_setting(State, SettingName, "s", scope),
                "set_setting", scope, SettingName)

CreateProfile ==
    /\ steps < MaxOps /\ Constructed
    /\ \E scope \in Scopes, n \in ProfileNames :
         Commit(create_profile(State, "llm", Profile(n), scope),
                "create_profile", scope, n)

EditProfile ==
    /\ steps < MaxOps /\ Constructed
    /\ \E scope \in Scopes :
         Commit(edit_profile(State, "llm", "p1", ProfileUpdates, scope),
                "edit_profile", scope, "p1")

DeleteProfile ==
    /\ steps < MaxOps /\ Constructed
    /\ \E scope \in Scopes :
         Commit(delete_profile(State, "llm", "p1", scope),
                "delete_profile", scope, "p1")

SetDefaultProfile ==
    /\ steps < MaxOps /\ Constructed
    /\ \E scope \in Scopes :
         Commit(set_default_profile(State, "llm", "p1", scope),
                "set_default_profile", scope, "p1")

UpdateConfig ==
    /\ steps < MaxOps /\ Constructed
    /\ \E scope \in Scopes :
         Commit(update_config(State, UpdateTree, scope), "update_config", scope, "")

SetCommandConfig ==
    /\ steps < MaxOps /\ Constructed
    /\ \E scope \in Scopes :
         Commit(set_command_config(State, CommandPath, CommandConfig, scope),
                "set_command_config", scope, CommandPath)

UpdateCommandConfig ==
    /\ steps < MaxOps /\ Constructed
    /\ \E scope \in Scopes :
         Commit(update_command_config(State, CommandPath, CommandUpdates, scope),
                "update_command_config", scope, CommandPath)

DeleteCommandConfig ==
    /\ steps < MaxOps /\ Constructed
    /\ \E scope \in Scopes :
         Commit(delete_command_config(State, CommandPath, scope),
                "delete_command_config", scope, CommandPath)

\* config reset: rt.save_config(rt.DEFAULT_CONFIG, scope)
reset_config(s, scope) == save_config(s, s.DEFAULT_CONFIG, scope)

ResetConfig ==
    /\ steps < MaxOps /\ Constructed
    /\ \E scope \in Scopes :
         Commit(reset_config(State, scope), "reset_config", scope, "")

\* config replace: rt.save_config(json.loads(config_json), scope)
replace_config(s, config_json, scope) ==
    SaveNew(s, Load(s.heap, config_json), scope)

ReplaceConfig ==
    /\ steps < MaxOps /\ Constructed
    /\ \E scope \in Scopes :
         Commit(replace_config(State, UpdateTree, scope), "replace_config", scope, "")

\* config import --from-<scope> --to-<scope> [--replace]
import_config(s, from_scope, to_scope, replace) ==
    IF replace
    THEN save_config(s, get_config(s, from_scope), to_scope)
    ELSE SaveNew(s, deep_merge(s.heap, get_config(s, to_scope),
                               get_config(s, from_scope)),
                 to_scope)

\* config import --from-<scope> --to-file <path> [--replace]; t: the settings
\* ContextManager.initialize({"file_path": to_file}) constructed,
\* source_config: what rt.get_config(source_scope) returned
import_to_file(t, source_config, replace) ==
    IF replace THEN save_config(t, source_config, "file")
    ELSE IF get_config(t, "file") = 0 THEN Raise(t, "ValueError")
    ELSE SaveNew(t, deep_merge(t.heap, get_config(t, "file"), source_config),
                 "file")

\* the destinations of an import: --to-global, --to-local, --to-file, none
NoDestination == [scope |-> None, file |-> None]
Destinations ==
    { NoDestination,
      [scope |-> "global", file |-> None],
      [scope |-> "local", file |-> None],
      [scope |-> None, file |-> NamedFile] }
ImportOp(replace) == IF replace THEN "import_replace" ELSE "import_merge"

\* the effect and the outcome of an import into a named file: the settings
\* of the context manager are the ones constructed for the file
ImportedToFile(r, args, op, from_scope) ==
    /\ Becomes(Collect(r.s))
    /\ cli_given' = args
    /\ ret' = [op |-> op, scope |-> "file", status |-> r.status,
               arg |-> from_scope, inst |-> 0, val |-> ""]
    /\ steps' = steps + 1
    /\ UNCHANGED <<sys_argv, conv, cm_instance, cm_created>>

\* the command with its options
Import(from_scope, to, replace) ==
    IF from_scope = None \/ to = NoDestination
    THEN Commit(Raise(State, "ValueError"), "import_config", "", "")
    ELSE IF to.file # None
    THEN ImportedToFile(
             import_to_file(init(State, [file_path |-> to.file], ""),
                            get_config(State, from_scope), replace),
             [file_path |-> to.file], ImportOp(replace), from_scope)
    ELSE /\ from_scope # to.scope
         /\ Commit(import_config(State, from_scope, to.scope, replace),
                   ImportOp(replace), to.scope, from_scope)

ImportConfig ==
    /\ steps < MaxOps /\ Constructed
    /\ \E from_scope \in {None, "global", "local"}, to \in Destinations,
          replace \in BOOLEAN :
         Import(from_scope, to, replace)

(***************************************************************************)
(* A process that resets, changes a setting and imports: the same          *)
(* operations, one more of them in a run                                   *)
(***************************************************************************)
MaxSessionOps == 4

SessionStart ==
    /\ steps = 0
    /\ \E args \in ScopeArgs \cup {NoArgs} :
         Construct(args, "", "initialize", cm_new(cm_instance, cm_created))

SessionReset ==
    /\ steps < MaxSessionOps /\ Constructed
    /\ \E scope \in Scopes :
         Commit(reset_config(State, scope), "reset_config", scope, "")

SessionSetSetting ==
    /\ steps < MaxSessionOps /\ Constructed
    /\ \E scope \in Scopes :
         Commit(set_setting(State, SettingName, "s", scope),
                "set_setting", scope, SettingName)

SessionImport ==
    /\ steps < MaxSessionOps /\ Constructed
    /\ \E from_scope \in {None, "global", "local"}, to \in Destinations,
          replace \in BOOLEAN :
         Import(from_scope, to, replace)

NextImport ==
    \/ SessionStart
    \/ SessionReset
    \/ SessionSetSetting
    \/ SessionImport

SpecImport == Init /\ [][NextImport]_vars

Next ==
    \/ Initialize
    \/ InitializeContext
    \/ GetInstance
    \/ SetSetting
    \/ CreateProfile
    \/ EditProfile
    \/ DeleteProfile
    \/ SetDefaultProfile
    \/ UpdateConfig
    \/ SetCommandConfig
    \/ UpdateCommandConfig
    \/ DeleteCommandConfig
    \/ ResetConfig
    \/ ReplaceConfig
    \/ ImportConfig

Spec == Init /\ [][Next]_vars

(***************************************************************************)
(* Parameter resolution: a command of the tool runs (standard_command      *)
(* hands scope, file_path and the command's own options to                 *)
(* initialize_context, None for an option that was not given), then asks   *)
(* for its parameters.                                                     *)
(***************************************************************************)
ParamNames == {"param1", "param2"}
\* what the command line gave for a parameter
NotGiven == {None}
Given == {"v"}
Default == "default1"

\* the cli_args of advanced_exec, and of a caller that passes only what it has
CommandArgs ==
    { [scope |-> "local", file_path |-> None] @@ p :
        p \in UNION { [ks -> NotGiven \cup Given] : ks \in SUBSET ParamNames } }

InitParam ==
    /\ Init
    /\ sys_argv = <<"cli-tool">>
    /\ files[global_config_path] = Missing
    /\ files[local_config_path].kind # "invalid"
    /\ files[NamedFile].kind # "invalid"

RunCommand ==
    /\ steps < MaxOps
    /\ \E args \in CommandArgs, path \in {"", CommandPath} :
         Construct(args, path, "initialize_context",
                   IF cm_instance # 0 THEN cm_instance
                   ELSE cm_new(cm_instance, cm_created))

\* get_parameter_value(param_name, default), the context being initialized
GetParamValue ==
    /\ steps < MaxOps /\ Constructed
    /\ \E p \in ParamNames :
         /\ ret' = [op |-> "get_param_value", scope |-> "",
                    status |-> get_param_value(State, p, Default).status,
                    arg |-> p, inst |-> 0,
                    val |-> get_param_value(State, p, Default).val]
         /\ steps' = steps + 1
         /\ UNCHANGED <<heap, DEFAULT_CONFIG, global_config, local_config,
                        named_config, named_config_path, cli_args, context,
                        command_path, sys_argv, conv, files, cm_instance, cm_created,
                        cli_given>>

NextParam ==
    \/ RunCommand
    \/ GetParamValue
    \/ SetSetting
    \/ SetCommandConfig
    \/ UpdateCommandConfig
    \/ DeleteCommandConfig

SpecParam == InitParam /\ [][NextParam]_vars

(***************************************************************************)
(* Profile lookups across scopes: [status, val]                            *)
(***************************************************************************)
Raised(e) == [status |-> e, val |-> ""]

\* config["profiles"][profile_type][name] is there (config a dictionary that
\* has "profiles")
InProfiles(h, config, profile_type, name) ==
    /\ profile_type \in DOMAIN h[Sub(h, config, "profiles")]
    /\ name \in DOMAIN h[OfType(h, config, profile_type)]

\* the profile, as the caller sees it
ProfileAt(h, config, profile_type, name) ==
    Return(Value(h, h[OfType(h, config, profile_type)][name].ref))

\* get_profile(profile_type, name): from the effective configuration
get_profile(s, profile_type, name) ==
    IF "profiles" \notin DOMAIN s.heap[s.context] THEN Raised("KeyError")
    ELSE IF ~InProfiles(s.heap, s.context, profile_type, name)
    THEN Raised("ValueError")
    ELSE ProfileAt(s.heap, s.context, profile_type, name)

\* the lookup in one document inside try ... except (KeyError, TypeError):
\* pass; found or not
FoundIn(h, config, profile_type, name) ==
    /\ "profiles" \in DOMAIN h[config]
    /\ InProfiles(h, config, profile_type, name)

\* get_profile_from_any_scope once get_profile raised ValueError
ProfileFromScopes(s, profile_type, name, current_scope) ==
    IF current_scope = V("file")
       /\ FoundIn(s.heap, s.local_config, profile_type, name)
    THEN ProfileAt(s.heap, s.local_config, profile_type, name)
    ELSE IF FoundIn(s.heap, s.global_config, profile_type, name)
    THEN ProfileAt(s.heap, s.global_config, profile_type, name)
    ELSE Raised("ValueError")

get_profile_from_any_scope(s, profile_type, name) ==
    IF get_profile(s, profile_type, name).status # "ValueError"
    THEN get_profile(s, profile_type, name)
    ELSE ProfileFromScopes(s, profile_type, name,
                           Get(s.heap, s.context, "current_scope", V(None)))

\* config["defaults"][profile_type] is there and is not empty
DefaultIn(h, config, profile_type) ==
    /\ profile_type \in DOMAIN h[Sub(h, config, "defaults")]
    /\ TruthyVal(h[Sub(h, config, "defaults")][profile_type])

DefaultOf(h, config, profile_type) ==
    Return(h[Sub(h, config, "defaults")][profile_type].val)

\* the check of the global document, last
DefaultFromGlobal(s, profile_type) ==
    IF "defaults" \notin DOMAIN s.heap[s.global_config] THEN Raised("KeyError")
    ELSE IF DefaultIn(s.heap, s.global_config, profile_type)
    THEN DefaultOf(s.heap, s.global_config, profile_type)
    ELSE Return(None)

\* get_default_profile_from_any_scope once the effective configuration has
\* no default for the type
DefaultFromScopes(s, profile_type, current_scope) ==
    IF current_scope # V("file") THEN DefaultFromGlobal(s, profile_type)
    ELSE IF "defaults" \notin DOMAIN s.heap[s.local_config] THEN Raised("KeyError")
    ELSE IF DefaultIn(s.heap, s.local_config, profile_type)
    THEN DefaultOf(s.heap, s.local_config, profile_type)
    ELSE DefaultFromGlobal(s, profile_type)

get_default_profile_from_any_scope(s, profile_type) ==
    IF "defaults" \notin DOMAIN s.heap[s.context] THEN Raised("KeyError")
    ELSE IF TruthyVal(Get(s.heap, Sub(s.heap, s.context, "defaults"),
                          profile_type, V(None)))
    THEN DefaultOf(s.heap, s.context, profile_type)
    ELSE DefaultFromScopes(s, profile_type,
                           Get(s.heap, s.context, "current_scope", V(None)))

\* an operation of the settings object that only returns or raises
Answer(op, arg, r) ==
    /\ ret' = [op |-> op, scope |-> "", status |-> r.status, arg |-> arg,
               inst |-> 0, val |-> r.val]
    /\ steps' = steps + 1
    /\ UNCHANGED <<heap, DEFAULT_CONFIG, global_config, local_config,
                   named_config, named_config_path, cli_args, context,
                   command_path, sys_argv, conv, files, cm_instance, cm_created,
                   cli_given>>

GetProfileFromAnyScope ==
    /\ steps < MaxOps /\ Constructed
    /\ \E n \in ProfileNames :
         Answer("get_profile_from_any_scope", n,
                get_profile_from_any_scope(State, "llm", n))

GetDefaultProfileFromAnyScope ==
    /\ steps < MaxOps /\ Constructed
    /\ Answer("get_default_profile_from_any_scope", "llm",
              get_default_profile_from_any_scope(State, "llm"))

\* a process that works with profiles
NextProfile ==
    \/ Initialize
    \/ CreateProfile
    \/ DeleteProfile
    \/ SetDefaultProfile
    \/ GetProfileFromAnyScope
    \/ GetDefaultProfileFromAnyScope

SpecProfile == Init /\ [][NextProfile]_vars

(***************************************************************************)
(* get-clipboard and get-page: the options of the command and its          *)
(* command-specific configuration                                          *)
(***************************************************************************)
OptionNames == {"profile", "max_tokens", "temperature", "max_continuations"}
\* default=10 of --max-continuations
MaxContinuationsDefault == "10"
\* the values a command line gives to an option
OptionValues(k) ==
    IF k = "profile" THEN {"p1"}
    ELSE IF k = "max_continuations" THEN {"0", MaxContinuationsDefault}
    ELSE {"0", "7"}
\* the command lines: each option given or not
CommandLines ==
    UNION { { f \in [ks -> {"0", "7", "p1", MaxContinuationsDefault}] :
                \A k \in ks : f[k] \in OptionValues(k) } :
            ks \in SUBSET OptionNames }
ConversionCommands == {"get-clipboard", "get-page"}

\* a local configuration file with command-specific configuration of both
\* commands
OptionsTree ==
    Obj([commands |->
           Obj([c \in ConversionCommands |->
                  Obj([profile |-> Sc("pc"), max_tokens |-> Sc("50"),
                       temperature |-> Sc("2"),
                       max_continuations |-> Sc("3")])])])
PartialOptionsTree ==
    Obj([commands |->
           Obj([c \in ConversionCommands |-> Obj([max_tokens |-> Sc("50")])])])

\* what click hands to the function for the option k
Parsed(line, k) ==
    IF k \in DOMAIN line THEN line[k]
    ELSE IF k = "max_continuations" THEN MaxContinuationsDefault
    ELSE None

\* cmd_config.get(k) and k in cmd_config; cmd_config is 0 for the empty
\* dictionary
ConfigHas(h, cmd_config, k) == cmd_config # 0 /\ k \in DOMAIN h[cmd_config]
ConfigGet(h, cmd_config, k) ==
    IF ConfigHas(h, cmd_config, k) THEN h[cmd_config][k].val ELSE None

\* the value of the option is the one that stands for "not given"
Consult(line, k) ==
    IF k = "profile" THEN ~TruthyVal(V(Parsed(line, k)))
    ELSE IF k = "max_continuations"
    THEN Parsed(line, k) = MaxContinuationsDefault
    ELSE Parsed(line, k) = None

\* "Get config defaults if parameters not specified"
Resolved(h, cmd_config, line, k) ==
    IF k = "profile"
    THEN IF Consult(line, k) THEN ConfigGet(h, cmd_config, k)
         ELSE Parsed(line, k)
    ELSE IF Consult(line, k) /\ ConfigHas(h, cmd_config, k)
    THEN ConfigGet(h, cmd_config, k)
    ELSE Parsed(line, k)

\* the command up to the point where its options are settled; c: the
\* settings after ContextManager.initialize
SettleOptions(c, name, args, line, instance) ==
    /\ Becomes(c)
    /\ cli_given' = args
    /\ cm_instance' = instance
    /\ cm_created' = IF instance > cm_created THEN instance ELSE cm_created
    /\ ret' = [op |-> name, scope |-> "", status |-> "ok", arg |-> line,
               inst |-> instance,
               val |-> [k \in OptionNames |->
                          Resolved(c.heap, CommandConfigOf(c, name), line, k)]]
    /\ steps' = steps + 1
    /\ UNCHANGED <<sys_argv, conv>>

\* the command line of a process runs one command
ConversionCommand ==
    /\ steps = 0 /\ cm_instance = 0
    /\ \E name \in ConversionCommands, line \in CommandLines,
          args \in { [scope |-> "local", file_path |-> None],
                     [scope |-> "global", file_path |-> None] } :
         SettleOptions(Collect(init(State, args, name)), name, args, line,
                       cm_new(cm_instance, cm_created))

InitOptions ==
    /\ heap = Load(<<>>, DefaultTree).h
    /\ DEFAULT_CONFIG = 1
    /\ global_config = 0
    /\ local_config = 0
    /\ named_config = 0
    /\ named_config_path = ""
    /\ cli_args = 0
    /\ context = 0
    /\ command_path = ""
    /\ sys_argv = <<"cli-tool">>
    /\ \E l \in {Missing, Json(OptionsTree), Json(PartialOptionsTree)} :
         files = [p \in Paths |-> IF p = local_config_path THEN l ELSE Missing]
    /\ cm_instance = 0
    /\ cm_created = 0
    /\ cli_given = NoArgs
    /\ ret = NoRet
    /\ steps = 0
    /\ conv = NoConversion

NextOptions == ConversionCommand

SpecOptions == InitOptions /\ [][NextOptions]_vars

(***************************************************************************)
(* ContentProcessor.process_with_llm and the process_with_llm of           *)
(* get-clipboard: the conversation with the LLM                            *)
(***************************************************************************)
\* the largest --max-continuations of the model
MaxContinuations == 4

\* messages of the conversation
HumanMessage(content) == [type |-> "human", content |-> content]
AIMessage(content) == [type |-> "ai", content |-> content]
filename_prompt == "filename_prompt(content)"
conversion_prompt == "conversion_prompt(content)"
continuation_prompt == "continuation_prompt"

\* what the model may answer: text without a sign of completion, text whose
\* last lines have one of the completion markers, the explicit marker in the
\* last lines, the explicit marker followed by more than five lines, and the
\* word "complete" near one of the keywords
Unfinished == {"text", "more text"}
WithMarker == {"in conclusion", "text CONVERSION COMPLETE"}
WithExplicitMarker == {"text CONVERSION COMPLETE", "CONVERSION COMPLETE and six lines"}
WithKeywords == {"now all complete"}
Responses == Unfinished \cup WithMarker \cup WithExplicitMarker \cup WithKeywords
FilenameResponses == {"FILENAME: a.md", "a name"}

\* the three checks of the loop on response.content
SeemsComplete(content) ==
    \/ content \in WithMarker
    \/ content \in WithExplicitMarker
    \/ content \in WithKeywords

\* the extraction of the suggested filename
SuggestedFilename(content) == IF content = "FILENAME: a.md" THEN "a.md" ELSE None

\* while continuation_count < max_continuations, as a loop that runs once
\* more
LoopRunsOnceMore(continuation_count, max_continuations) ==
    continuation_count <= max_continuations
\* while continuation_count < max_continuations
LoopRuns(continuation_count, max_continuations) ==
    continuation_count < max_continuations

\* a join that puts nothing between the responses
JoinedWithoutBlankLine(result_content, content) == result_content \o content
\* result_content += "\n\n" + response.content
Joined(result_content, content) == result_content \o "\n\n" \o content

\* if len(messages) > 6: messages = [messages[0]] + messages[-5:]
Trimmed(messages) ==
    IF Len(messages) > 6
    THEN <<messages[1]>> \o SubSeq(messages, Len(messages) - 4, Len(messages))
    ELSE messages

\* everything but the conversion
process ==
    <<heap, DEFAULT_CONFIG, global_config, local_config, named_config,
      named_config_path, cli_args, context, command_path, sys_argv, files,
      cm_instance, cm_created, cli_given, ret, steps>>

\* the call: process_with_llm(content, need_filename), max_continuations
\* being the option of the command
Called(need_filename, max_continuations) ==
    [pc |-> IF need_filename THEN "filename" ELSE "convert",
     max_continuations |-> max_continuations,
     messages |-> <<>>, suggested_filename |-> None,
     response |-> "", result_content |-> "", continuation_count |-> 0,
     request |-> "", sent |-> <<>>, continuations |-> 0, received |-> <<>>]

\* Step 1: the filename is asked for; the model answers with content
AskFilename(c, content) ==
    [c EXCEPT !.pc = "convert",
              !.request = "filename",
              !.sent = <<HumanMessage(filename_prompt)>>,
              !.suggested_filename = SuggestedFilename(content),
              !.messages = <<HumanMessage(filename_prompt), AIMessage(content)>>]

\* Step 2: the conversion is asked for
AskConversion(c, content) ==
    [c EXCEPT !.pc = "loop",
              !.request = "conversion",
              !.sent = c.messages \o <<HumanMessage(conversion_prompt)>>,
              !.messages = c.messages \o <<HumanMessage(conversion_prompt),
                                           AIMessage(content)>>,
              !.response = content,
              !.result_content = content,
              !.received = <<content>>,
              !.continuation_count = 0]

\* Step 3, a round of the loop that asks the model to continue
AskContinuation(c, content) ==
    [c EXCEPT !.continuation_count = @ + 1,
              !.request = "continuation",
              !.sent = c.messages \o <<HumanMessage(continuation_prompt)>>,
              !.continuations = @ + 1,
              !.response = content,
              !.result_content = Joined(@, content),
              !.received = Append(@, content),
              !.messages = Trimmed(c.messages
                                   \o <<HumanMessage(continuation_prompt),
                                        AIMessage(content)>>)]

\* Step 3, a round of the loop that finds the response complete
Break(c) == [c EXCEPT !.continuation_count = @ + 1, !.pc = "done"]

RequestFilename ==
    /\ conv.pc = "filename"
    /\ \E content \in FilenameResponses : conv' = AskFilename(conv, content)
    /\ UNCHANGED process

RequestConversion ==
    /\ conv.pc = "convert"
    /\ \E content \in Responses : conv' = AskConversion(conv, content)
    /\ UNCHANGED process

RequestContinuation ==
    /\ conv.pc = "loop"
    /\ LoopRuns(conv.continuation_count, conv.max_continuations)
    /\ ~SeemsComplete(conv.response)
    /\ \E content \in Responses : conv' = AskContinuation(conv, content)
    /\ UNCHANGED process

CompletionDetected ==
    /\ conv.pc = "loop"
    /\ LoopRuns(conv.continuation_count, conv.max_continuations)
    /\ SeemsComplete(conv.response)
    /\ conv' = Break(conv)
    /\ UNCHANGED process

\* the loop ends because the counter reached max_continuations
ReturnResult ==
    /\ conv.pc = "loop"
    /\ ~LoopRuns(conv.continuation_count, conv.max_continuations)
    /\ conv' = [conv EXCEPT !.pc = "done"]
    /\ UNCHANGED process

InitConversion ==
    /\ heap = Load(<<>>, DefaultTree).h
    /\ DEFAULT_CONFIG = 1
    /\ global_config = 0
    /\ local_config = 0
    /\ named_config = 0
    /\ named_config_path = ""
    /\ cli_args = 0
    /\ context = 0
    /\ command_path = ""
    /\ sys_argv = <<"cli-tool">>
    /\ files = [p \in Paths |-> Missing]
    /\ cm_instance = 0
    /\ cm_created = 0
    /\ cli_given = NoArgs
    /\ ret = NoRet
    /\ steps = 0
    /\ \E need_filename \in BOOLEAN, max_continuations \in 0..MaxContinuations :
         conv = Called(need_filename, max_continuations)

NextConversion ==
    \/ RequestFilename
    \/ RequestConversion
    \/ RequestContinuation
    \/ CompletionDetected
    \/ ReturnResult

SpecConversion == InitConversion /\ [][NextConversion]_vars

\* the function runs on: no step of it waits for anything but the model's
\* answer, which arrives
FairConversion == SpecConversion /\ WF_vars(NextConversion)

(***************************************************************************)
(* A process whose configuration files have keys of their own named        *)
(* current_scope and cli_args                                              *)
(***************************************************************************)
TaggedTree ==
    Obj([current_scope |-> Sc("elsewhere"),
         cli_args |-> Obj([scope |-> Sc("global")]),
         settings |-> Obj([param1 |-> Sc("t")])])

InitKeys ==
    /\ heap = Load(<<>>, DefaultTree).h
    /\ DEFAULT_CONFIG = 1
    /\ global_config = 0
    /\ local_config = 0
    /\ named_config = 0
    /\ named_config_path = ""
    /\ cli_args = 0
    /\ context = 0
    /\ command_path = ""
    /\ sys_argv = <<"cli-tool">>
    /\ \E f \in { <<Missing, Json(TaggedTree), Missing>>,
                   <<Json(TaggedTree), Missing, Json(TaggedTree)>>,
                   <<Json(LocalTree), Json(TaggedTree), Json(NamedTree)>> } :
         files = [p \in Paths |-> IF p = global_config_path THEN f[1]
                                  ELSE IF p = local_config_path THEN f[2]
                                  ELSE f[3]]
    /\ cm_instance = 0
    /\ cm_created = 0
    /\ cli_given = NoArgs
    /\ ret = NoRet
    /\ steps = 0
    /\ conv = NoConversion

SpecKeys == InitKeys /\ [][Next]_vars

(***************************************************************************)
(* Reading configuration values, for the properties below                  *)
(***************************************************************************)
Absent == [absent |-> TRUE]
\* the value at key path p of the value t, Absent when the path is not there
RECURSIVE At(_, _)
At(t, p) ==
    IF p = <<>> THEN t
    ELSE IF IsObj(t) /\ Head(p) \in DOMAIN t.d THEN At(t.d[Head(p)], Tail(p))
    ELSE Absent
Has(t, p) == At(t, p) # Absent

\* the key paths of t whose value is not an object
RECURSIVE LeafPaths(_)
LeafPaths(t) ==
    IF ~IsObj(t) THEN {<<>>}
    ELSE UNION { { <<k>> \o p : p \in LeafPaths(t.d[k]) } : k \in DOMAIN t.d }

\* precedence merge of two values: b over a, objects merged key by key
RECURSIVE TreeMerge(_, _)
TreeMerge(a, b) ==
    IF IsObj(a) /\ IsObj(b)
    THEN Obj([k \in DOMAIN a.d \cup DOMAIN b.d |->
                IF k \notin DOMAIN b.d THEN a.d[k]
                ELSE IF k \notin DOMAIN a.d THEN b.d[k]
                ELSE TreeMerge(a.d[k], b.d[k])])
    ELSE b
RECURSIVE TreeMergeAll(_, _)
TreeMergeAll(a, ts) ==
    IF ts = <<>> THEN a ELSE TreeMergeAll(TreeMerge(a, Head(ts)), Tail(ts))

\* the documents, as values
DefaultsDoc == Value(heap, DEFAULT_CONFIG)
GlobalDoc == Value(heap, global_config)
LocalDoc == Value(heap, local_config)
NamedDoc == IF named_config = 0 THEN Absent ELSE Value(heap, named_config)
DocOf(scope) ==
    IF scope = "global" THEN GlobalDoc
    ELSE IF scope = "local" THEN LocalDoc
    ELSE NamedDoc
PathOf(scope) ==
    IF scope = "global" THEN global_config_path
    ELSE IF scope = "local" THEN local_config_path
    ELSE NamedFile

\* get_effective_config(), as a value; without the two attached keys
ContextDoc == Value(heap, context)
Without(t, ks) == Obj([k \in DOMAIN t.d \ ks |-> t.d[k]])
Effective == Without(ContextDoc, {"current_scope", "cli_args"})
CurrentScope == heap[context]["current_scope"].val

\* what the caller selected: a named file, the global scope
FileSelected ==
    \/ "file_path" \in DOMAIN cli_given /\ cli_given["file_path"] # None
    \/ \E i \in 1..(Len(sys_argv) - 1) : sys_argv[i] = "--file"
GlobalSelected ==
    /\ ~FileSelected
    /\ "scope" \in DOMAIN cli_given
    /\ cli_given["scope"] = "global"
NamedLoaded == named_config # 0 /\ DOMAIN heap[named_config] # {}

\* the first value of the sequence ts that has the path p (ts: most specific first)
First(ts, p) ==
    ts[CHOOSE i \in 1..Len(ts) : Has(ts[i], p) /\ \A j \in 1..(i - 1) : ~Has(ts[j], p)]
SomeHas(ts, p) == \E i \in 1..Len(ts) : Has(ts[i], p)
AllLeafPaths(ts) == UNION { LeafPaths(ts[i]) : i \in 1..Len(ts) }

\* the documents of the current scope, most specific first
Precedence ==
    IF CurrentScope = "file" THEN <<NamedDoc, LocalDoc, GlobalDoc, DefaultsDoc>>
    ELSE IF CurrentScope = "local" THEN <<LocalDoc, GlobalDoc, DefaultsDoc>>
    ELSE <<GlobalDoc, DefaultsDoc>>

\* every leaf of the value e is the value of the most specific of ts that has
\* its path, and every path that is a leaf there is that leaf in e
MostSpecificWins(e, ts) ==
    /\ \A p \in LeafPaths(e) : SomeHas(ts, p) /\ At(e, p) = At(First(ts, p), p)
    /\ \A p \in AllLeafPaths(ts) :
         IsObj(At(First(ts, p), p)) \/ At(e, p) = At(First(ts, p), p)

(***************************************************************************)
(* C1                                                                      *)
(***************************************************************************)
\* C1: in file scope and in local scope, every key path of the effective
\* context whose value is not an object has the value of the most specific
\* document that contains the path (named file, local, global,
\* DEFAULT_CONFIG; resp. local, global, DEFAULT_CONFIG), and objects are merged
\* key by key: a leaf of a less specific document that no more specific
\* document has is in the context too.
C1_MostSpecificDocumentWins ==
    (Constructed /\ CurrentScope \in {"file", "local"})
        => MostSpecificWins(Effective, Precedence)

\* the named file gives settings.param1, the local file settings.log_level,
\* DEFAULT_CONFIG settings.color_theme, all under the one settings object
C1_Witness ==
    /\ Constructed
    /\ CurrentScope = "file"
    /\ At(NamedDoc, <<"settings", "param1">>) = Sc("f")
    /\ At(LocalDoc, <<"settings", "param1">>) = Sc("l")
    /\ At(Effective, <<"settings", "param1">>) = Sc("f")
    /\ At(Effective, <<"settings", "log_level">>) = Sc("debug")
    /\ At(Effective, <<"settings", "color_theme">>) = Sc("dark")

(***************************************************************************)
(* C2                                                                      *)
(***************************************************************************)
\* C2: when the global scope is selected and no named file is, current_scope
\* is "global" and the effective configuration is built from the global
\* document and the built-in defaults alone: each of its leaves is the
\* global document's, or else the built-in default's, whatever operations
\* came before in the process.
C2_GlobalScopeOnly ==
    (Constructed /\ GlobalSelected)
        => /\ CurrentScope = "global"
           /\ MostSpecificWins(Effective, <<GlobalDoc, DefaultTree>>)

(***************************************************************************)
(* C3, C4 (under SpecParam)                                                *)
(***************************************************************************)
\* the parameter asked for was supplied on the command line with a value
Supplied(p) == p \in DOMAIN cli_given /\ cli_given[p] # None

\* what the sources below the command line hold for p, d being the default
Configured(p, d) ==
    IF Has(ContextDoc, <<"commands", command_path, p>>) /\ command_path # ""
    THEN At(ContextDoc, <<"commands", command_path, p>>)
    ELSE IF Has(ContextDoc, <<"settings", p>>)
    THEN At(ContextDoc, <<"settings", p>>)
    ELSE Sc(d)

\* C3: for a parameter the user supplied with a value on the command line,
\* get_param_value returns that value, whatever the command-specific
\* configuration, the settings and the default hold.
C3_CommandLineWins ==
    (ret.op = "get_param_value" /\ Supplied(ret.arg))
        => ret.status = "ok" /\ ret.val = cli_given[ret.arg]

\* param2 was supplied while the current command's configuration has a
\* param2 of its own
C3_Witness ==
    /\ ret.op = "get_param_value"
    /\ ret.arg = "param2"
    /\ Supplied("param2")
    /\ At(ContextDoc, <<"commands", command_path, "param2">>) = Sc("lc")
    /\ ret.val = "v"

\* C4: for a parameter that was not supplied on the command line (its entry
\* is absent, or None because the option was not given), get_param_value
\* returns the current command's configuration value if that
\* configuration has the key, otherwise the setting if settings has the key,
\* otherwise the caller's default.
C4_ConfiguredValueWhenNotSupplied ==
    (ret.op = "get_param_value" /\ ~Supplied(ret.arg))
        => ret.status = "ok" /\ Sc(ret.val) = Configured(ret.arg, Default)

(***************************************************************************)
(* C5                                                                      *)
(***************************************************************************)
\* the operations that end in save_config
Saving ==
    {"set_setting", "create_profile", "edit_profile", "delete_profile",
     "set_default_profile", "update_config", "set_command_config",
     "update_command_config", "delete_command_config",
     "reset_config", "replace_config", "import_replace", "import_merge"}

\* the documents merged for the selected scope, least specific first, and
\* the tag of that scope
SelectedDocs ==
    IF FileSelected
    THEN IF NamedLoaded THEN <<GlobalDoc, LocalDoc, NamedDoc>>
         ELSE <<GlobalDoc, LocalDoc>>
    ELSE IF GlobalSelected THEN <<GlobalDoc>>
    ELSE <<GlobalDoc, LocalDoc>>
SelectedScope ==
    IF FileSelected THEN IF NamedLoaded THEN "file" ELSE "local"
    ELSE IF GlobalSelected THEN "global"
    ELSE "local"

\* C5: after each successful mutation (every operation that ends in
\* save_config), get_effective_config() equals the precedence merge of the
\* then-current global, local and named documents for the selected scope,
\* over DEFAULT_CONFIG, with current_scope and cli_args attached.
C5_ContextRebuiltOnMutation ==
    (ret.op \in Saving /\ ret.status = "ok")
        => /\ Effective = TreeMergeAll(DefaultsDoc, SelectedDocs)
           /\ At(ContextDoc, <<"current_scope">>) = Sc(SelectedScope)
           /\ At(ContextDoc, <<"cli_args">>) = Value(heap, cli_args)

\* update_config has replaced the local document by a merged copy, and the
\* context shows the updated setting
C5_Witness ==
    /\ ret.op = "update_config"
    /\ ret.scope = "local"
    /\ ret.status = "ok"
    /\ SelectedScope = "local"
    /\ At(Effective, <<"settings", "param1">>) = Sc("u")
    /\ At(Effective, <<"settings", "log_level">>) = Sc("debug")

(***************************************************************************)
(* C6                                                                      *)
(***************************************************************************)
Mutators ==
    {"set_setting", "create_profile", "edit_profile", "delete_profile",
     "set_default_profile", "update_config", "set_command_config",
     "update_command_config", "delete_command_config"}

\* C6: a mutating operation addressed to one scope leaves the in-memory
\* documents and the files of the other scopes unchanged, whatever came
\* before.
C6_ScopesIndependent ==
    [][(ret'.op \in Mutators /\ steps' = steps + 1)
          => \A scope \in Scopes \ {ret'.scope} :
                /\ DocOf(scope)' = DocOf(scope)
                /\ files'[PathOf(scope)] = files[PathOf(scope)]]_vars

(***************************************************************************)
(* C7                                                                      *)
(***************************************************************************)
\* C7: get_instance() raises RuntimeError exactly as long as nothing was
\* initialized; every successful get_instance(), initialize() and
\* initialize_context() returns the one instance there is, the first ever
\* allocated.
C7_Singleton ==
    /\ (ret.op = "get_instance"
          => (ret.status = "RuntimeError" <=> ~Constructed))
    /\ (ret.op \in {"get_instance", "initialize", "initialize_context"}
            /\ ret.status = "ok"
          => ret.inst = 1 /\ cm_instance = 1 /\ cm_created = 1)

\* the third call of the process, the settings having been constructed from
\* command-line arguments, gets the first instance
C7_Witness ==
    /\ steps = 3
    /\ ret.op \in {"get_instance", "initialize"}
    /\ ret.status = "ok"
    /\ ret.inst = 1
    /\ cli_given # NoArgs

(***************************************************************************)
(* C8                                                                      *)
(***************************************************************************)
\* the last operation constructed the settings object
JustConstructed == ret.arg = NewSettings

\* the document of a scope is what its file holds
LoadedNormally(scope) ==
    files[PathOf(scope)].kind = "json" => DocOf(scope) = files[PathOf(scope)].tree

\* C8: when the global or the local file exists but is not valid JSON,
\* constructing the settings does not raise, the document of that scope is
\* the built-in default document, and the other scope is loaded normally.
C8_InvalidFileGivesDefaults ==
    JustConstructed
        => \A scope \in {"global", "local"} :
              files[PathOf(scope)].kind = "invalid"
                 => /\ ret.status = "ok"
                    /\ DocOf(scope) = DefaultTree
                    /\ \A other \in {"global", "local"} \ {scope} :
                          LoadedNormally(other)

(***************************************************************************)
(* C9                                                                      *)
(***************************************************************************)
\* C9: when a named file is selected but is absent or not valid JSON,
\* construction does not raise, the context is the merge local over global
\* over DEFAULT_CONFIG, current_scope is "local", and get_config("file")
\* raises ValueError.
C9_NamedFileUnusable ==
    (JustConstructed /\ FileSelected /\ files[NamedFile].kind # "json")
        => /\ ret.status = "ok"
           /\ Effective = TreeMergeAll(DefaultsDoc, <<GlobalDoc, LocalDoc>>)
           /\ CurrentScope = "local"
           /\ get_config(State, "file") = 0

\* the named file on the command line is not valid JSON, the local file has
\* a setting of its own, which the context shows
C9_Witness ==
    /\ JustConstructed
    /\ FileSelected
    /\ files[NamedFile].kind = "invalid"
    /\ At(LocalDoc, <<"settings", "param1">>) = Sc("l")
    /\ At(Effective, <<"settings", "param1">>) = Sc("l")
    /\ At(Effective, <<"settings", "color_theme">>) = Sc("dark")
    /\ CurrentScope = "local"

(***************************************************************************)
(* C10                                                                     *)
(***************************************************************************)
\* the profiles of the document of a scope, Absent when there are none
ProfilesOf(scope) == At(DocOf(scope), <<"profiles">>)
\* the value ps with the profile named n of type llm set to Profile(n)
WithProfile(ps, n) ==
    Obj([t \in DOMAIN ps.d \cup {"llm"} |->
           IF t = "llm"
           THEN Obj((n :> Obj([k \in DOMAIN Profile(n) |-> Sc(Profile(n)[k])]))
                    @@ (IF "llm" \in DOMAIN ps.d THEN ps.d["llm"].d ELSE <<>>))
           ELSE ps.d[t]])

C10_WitnessCreated ==
    /\ ret.op = "create_profile"
    /\ ret.scope = "local"
    /\ ret.arg = "p2"
    /\ ret.status = "ok"
    /\ Has(LocalDoc, <<"profiles", "llm", "p1">>)
    /\ Has(LocalDoc, <<"profiles", "llm", "p2">>)

(***************************************************************************)
(* C11                                                                     *)
(***************************************************************************)
\* the document t without the llm profile n; its llm default null when it
\* was n, and as it was otherwise
WithoutProfile(t, n) ==
    Obj([k \in DOMAIN t.d |->
           IF k = "profiles"
           THEN Obj([ty \in DOMAIN t.d[k].d |->
                       IF ty = "llm"
                       THEN Obj([m \in DOMAIN t.d[k].d[ty].d \ {n} |->
                                   t.d[k].d[ty].d[m]])
                       ELSE t.d[k].d[ty]])
           ELSE IF k = "defaults" /\ At(t, <<"defaults", "llm">>) = Sc(n)
           THEN Obj([ty \in DOMAIN t.d[k].d |->
                       IF ty = "llm" THEN Sc(None) ELSE t.d[k].d[ty]])
           ELSE t.d[k]])

C11_WitnessOtherKept ==
    /\ ret.op = "delete_profile" /\ ret.status = "ok"
    /\ Has(DocOf(ret.scope), <<"profiles", "llm", "p2">>)

\* deleting p1 from a document that does not have it was refused
C11_WitnessRefused ==
    /\ ret.op = "delete_profile" /\ ret.scope = "global"
    /\ ret.status = "ValueError"
    /\ Has(GlobalDoc, <<"profiles", "llm">>)

(***************************************************************************)
(* C12                                                                     *)
(***************************************************************************)
\* the llm profile n is in the value t
HasProfile(t, n) == t # Absent /\ Has(t, <<"profiles", "llm", n>>)
ProfileIn(t, n) == At(t, <<"profiles", "llm", n>>)

\* C12: get_profile_from_any_scope returns a profile of that name and type
\* whenever the effective configuration, the local document or the global
\* document has one, whichever the current scope is; it raises ValueError
\* only when none of the three has it.
C12_ProfileFromAnyScope ==
    \A n \in ProfileNames :
      (ret.op = "get_profile_from_any_scope" /\ ret.arg = n)
      => /\ (HasProfile(ContextDoc, n) \/ HasProfile(LocalDoc, n)
                 \/ HasProfile(GlobalDoc, n))
            => /\ ret.status = "ok"
               /\ \/ HasProfile(ContextDoc, n) /\ ret.val = ProfileIn(ContextDoc, n)
                  \/ HasProfile(LocalDoc, n) /\ ret.val = ProfileIn(LocalDoc, n)
                  \/ HasProfile(GlobalDoc, n) /\ ret.val = ProfileIn(GlobalDoc, n)
         /\ ret.status = "ValueError"
            => ~(HasProfile(ContextDoc, n) \/ HasProfile(LocalDoc, n)
                   \/ HasProfile(GlobalDoc, n))

(***************************************************************************)
(* C13                                                                     *)
(***************************************************************************)
\* the llm default of the value t, when it is not empty
HasDefault(t) ==
    /\ Has(t, <<"defaults", "llm">>)
    /\ At(t, <<"defaults", "llm">>) \notin {Sc(None), Sc("")}
DefaultIs(t) == At(t, <<"defaults", "llm">>).s

\* C13: get_default_profile_from_any_scope returns the first non-empty
\* default of the type in the order effective configuration, local document,
\* global document, and None only when none of the three has one.
C13_DefaultFromAnyScope ==
    ret.op = "get_default_profile_from_any_scope"
    => /\ ret.status = "ok"
       /\ ret.val = IF HasDefault(ContextDoc) THEN DefaultIs(ContextDoc)
                    ELSE IF HasDefault(LocalDoc) THEN DefaultIs(LocalDoc)
                    ELSE IF HasDefault(GlobalDoc) THEN DefaultIs(GlobalDoc)
                    ELSE None

(***************************************************************************)
(* C14                                                                     *)
(***************************************************************************)
\* the command-specific configuration of the command, in the effective
\* configuration
ConfiguredOption(name, k) == At(ContextDoc, <<"commands", name, k>>)

\* C14: in get-clipboard and get-page, for each of profile, max_tokens,
\* temperature and max_continuations, the value the command works with is
\* the one given on the command line whenever the option was given, whether
\* the command-specific configuration has the key or not; when the option
\* was not given and the configuration has the key, it is the configured
\* value.
C14_SuppliedOptionWins ==
    \A name \in ConversionCommands, k \in OptionNames :
      ret.op = name
      => IF k \in DOMAIN ret.arg THEN ret.val[k] = ret.arg[k]
         ELSE ConfiguredOption(name, k) # Absent
              => Sc(ret.val[k]) = ConfiguredOption(name, k)

(***************************************************************************)
(* C15                                                                     *)
(***************************************************************************)
\* C15: after a successful 'config reset' of a scope, whatever the process
\* did before, the document of the scope in memory and the content of its
\* file are the built-in defaults: no llm and no database profiles, null
\* defaults, settings output_format=json, color_theme=dark, log_level=info,
\* no command overrides.
C15_ResetGivesBuiltInDefaults ==
    \A scope \in Scopes :
      (ret.op = "reset_config" /\ ret.scope = scope /\ ret.status = "ok")
      => /\ DocOf(scope) = DefaultTree
         /\ files[PathOf(scope)] = Json(DefaultTree)

(***************************************************************************)
(* C16                                                                     *)
(***************************************************************************)
\* the destination of an import exists; its document before the import
DestinationExists(to) == to = "file" => files[NamedFile].kind = "json"
DestinationDoc(to) == IF to = "file" THEN files[NamedFile].tree ELSE DocOf(to)

\* C16: an import from the global or the local scope into another existing
\* scope (global, local, or a named file that exists) succeeds; with
\* --replace the destination document is then the source document, without
\* it the merge of the old destination with the source, the source winning
\* on leaves both have and the keys only the destination has being kept; the
\* file of the destination holds that document, the source document and its
\* file are as before.  An import without a source or without a destination
\* raises ValueError and changes no document, no file and not the context.
C16_Import ==
    [][/\ \A from_scope \in {"global", "local"}, to \in Scopes :
            (/\ ret'.op \in {"import_replace", "import_merge"}
             /\ steps' = steps + 1
             /\ ret'.scope = to /\ ret'.arg = from_scope
             /\ DestinationExists(to))
            => /\ ret'.status = "ok"
               /\ DocOf(to)' = IF ret'.op = "import_replace"
                                THEN DocOf(from_scope)
                                ELSE TreeMerge(DestinationDoc(to),
                                               DocOf(from_scope))
               /\ files'[PathOf(to)] = Json(DocOf(to)')
               /\ DocOf(from_scope)' = DocOf(from_scope)
               /\ files'[PathOf(from_scope)] = files[PathOf(from_scope)]
       /\ (ret'.op = "import_config" /\ steps' = steps + 1)
            => /\ ret'.status = "ValueError"
               /\ \A scope \in Scopes : DocOf(scope)' = DocOf(scope)
               /\ files' = files
               /\ ContextDoc' = ContextDoc]_vars

\* the local document was merged into the global one: the global document
\* keeps a setting only it has and shows the settings of the local one
C16_WitnessMerged ==
    /\ ret.op = "import_merge" /\ ret.scope = "global" /\ ret.arg = "local"
    /\ ret.status = "ok"
    /\ At(GlobalDoc, <<"settings", "color_theme">>) = Sc("dark")
    /\ At(GlobalDoc, <<"settings", "log_level">>) = Sc("debug")
    /\ At(LocalDoc, <<"settings", "log_level">>) = Sc("debug")
    /\ ~Has(LocalDoc, <<"settings", "color_theme">>)

\* the local document replaced the content of the named file
C16_WitnessReplaced ==
    /\ ret.op = "import_replace" /\ ret.scope = "file" /\ ret.arg = "local"
    /\ ret.status = "ok"
    /\ files[NamedFile] = Json(LocalTree)
    /\ NamedDoc = LocalTree

\* an import without source or destination was refused
C16_WitnessRefused ==
    ret.op = "import_config" /\ ret.status = "ValueError"

(***************************************************************************)
(* C20                                                                     *)
(***************************************************************************)
\* C20: an import without --replace into a named file that does not exist
\* creates the file with the source document as its content and reports
\* success.
C20_ImportCreatesFile ==
    [][\A from_scope \in {"global", "local"} :
         (/\ ret'.op = "import_merge" /\ steps' = steps + 1
          /\ ret'.scope = "file" /\ ret'.arg = from_scope
          /\ files[NamedFile].kind = "missing")
         => /\ ret'.status = "ok"
            /\ files'[NamedFile] = Json(DocOf(from_scope))]_vars

(***************************************************************************)
(* C17                                                                     *)
(***************************************************************************)
\* C17: whatever the model answers, the conversion returns, and the number
\* of continuation requests sent after the conversion request never exceeds
\* max_continuations; with max_continuations = 0 none is sent.
C17_LoopTerminates ==
    /\ [](conv.continuations <= conv.max_continuations)
    /\ <>(conv.pc = "done")

\* a conversion that used all its continuations and returned
C17_Witness ==
    /\ conv.pc = "done"
    /\ conv.max_continuations = 3
    /\ conv.continuations = 3
    /\ conv.response \in Unfinished

(***************************************************************************)
(* C18                                                                     *)
(***************************************************************************)
\* the messages m have the conversion prompt, which carries the content
HasConversionPrompt(m) ==
    \E i \in 1..Len(m) : m[i] = HumanMessage(conversion_prompt)

\* C18: the message list of every continuation request has the conversion
\* prompt, with and without a filename request before it and whatever the
\* number of continuations.
C18_FullContextKept ==
    conv.request = "continuation" => HasConversionPrompt(conv.sent)

(***************************************************************************)
(* C19 (under SpecParam)                                                   *)
(***************************************************************************)
\* the command-specific configuration of the current command in the
\* effective configuration, and self.cli_args, as values
CommandEntry == At(ContextDoc, <<"commands", command_path>>)
CliArgsDoc == Value(heap, cli_args)

\* C19: after a construction inside a command whose path has an entry under
\* "commands" in the effective configuration, for every key of the entry
\* cli_args has the value the command line supplied when it supplied one
\* (present and not None) and the configured value otherwise; every other
\* key of cli_args is as the caller handed it in.
C19_CommandConfigFillsGaps ==
    (/\ ret.arg = NewSettings /\ ret.status = "ok"
     /\ command_path # ""
     /\ Has(ContextDoc, <<"commands", command_path>>))
    => /\ \A k \in DOMAIN CommandEntry.d :
            At(CliArgsDoc, <<k>>) = IF Supplied(k) THEN Sc(cli_given[k])
                                   ELSE CommandEntry.d[k]
       /\ \A k \in DOMAIN CliArgsDoc.d \ DOMAIN CommandEntry.d :
            \/ k = "sys.argv"
            \/ k \in DOMAIN cli_given /\ CliArgsDoc.d[k] = Sc(cli_given[k])
       /\ DOMAIN cli_given \subseteq DOMAIN CliArgsDoc.d

\* the command line gave param1 and not param2, the configuration of the
\* command has both: cli_args has the given param1 and the configured param2
C19_Witness ==
    /\ ret.arg = NewSettings
    /\ command_path = CommandPath
    /\ Has(CommandEntry, <<"param1">>)
    /\ Has(CommandEntry, <<"param2">>)
    /\ Supplied("param1")
    /\ "param2" \in DOMAIN cli_given /\ cli_given["param2"] = None
    /\ At(CliArgsDoc, <<"param1">>) = Sc(cli_given["param1"])
    /\ At(CliArgsDoc, <<"param2">>) = CommandEntry.d["param2"]

(***************************************************************************)
(* C21                                                                     *)
(***************************************************************************)
\* the responses rs, in their order, with a blank line between two of them
RECURSIVE JoinedByBlankLines(_)
JoinedByBlankLines(rs) ==
    IF Len(rs) = 1 THEN rs[1]
    ELSE JoinedByBlankLines(SubSeq(rs, 1, Len(rs) - 1)) \o "\n\n" \o rs[Len(rs)]

\* the last response of the conversion has the text "CONVERSION COMPLETE"
MarkerReceived == conv.pc \in {"loop", "done"} /\ conv.response \in WithExplicitMarker

\* C21: once a response of the conversion contains "CONVERSION COMPLETE", no
\* further request is sent to the model, and the content the conversion
\* returns is the responses received so far, in the order received, joined
\* by blank lines.
C21_StopsAtExplicitMarker ==
    /\ [][MarkerReceived
          => /\ conv'.continuations = conv.continuations
             /\ conv'.sent = conv.sent
             /\ conv'.received = conv.received]_vars
    /\ []((MarkerReceived /\ conv.pc = "done")
          => conv.result_content = JoinedByBlankLines(conv.received))

\* the marker came, more than five lines before the end of the answer to the
\* second continuation request; the conversion returned the three responses
C21_Witness ==
    /\ conv.pc = "done"
    /\ conv.continuations = 2
    /\ conv.max_continuations = 4
    /\ conv.response = "CONVERSION COMPLETE and six lines"
    /\ conv.result_content
         = "text\n\nmore text\n\nCONVERSION COMPLETE and six lines"

(***************************************************************************)
(* C22 (under SpecKeys)                                                    *)
(***************************************************************************)
ContextKeys ==
    {"profiles", "defaults", "settings", "commands", "current_scope", "cli_args"}

\* C22: the files being JSON objects, the effective context of a constructed
\* settings object has the keys profiles, defaults, settings, commands,
\* current_scope and cli_args in every state, current_scope is "global",
\* "local" or "file", and cli_args is the dictionary of the CLI arguments,
\* also when a document has a current_scope or a cli_args key itself.
C22_ContextKeys ==
    Constructed
    => /\ ContextKeys \subseteq DOMAIN heap[context]
       /\ ~IsDict(heap[context]["current_scope"])
       /\ CurrentScope \in Scopes
       /\ heap[context]["cli_args"] = R(cli_args)

\* the local document has a current_scope and a cli_args of its own, and so
\* has the named file that is loaded; the context has the tag of the scope
C22_Witness ==
    /\ Constructed
    /\ At(LocalDoc, <<"current_scope">>) = Sc("elsewhere")
    /\ NamedLoaded /\ At(NamedDoc, <<"cli_args", "scope">>) = Sc("global")
    /\ CurrentScope = "file"
    /\ heap[context]["cli_args"] = R(cli_args)
    /\ At(ContextDoc, <<"settings", "param1">>) = Sc("t")

====
